---------------------------- MODULE Spec2Model ----------------------------
(***************************************************************************)
(* Model of INN-SFU/ImageTech_tools:                                       *)
(*   extract_subject_info.py  DICOM demographics and the participants.tsv  *)
(*                            merge (update_participants_tsv)              *)
(*   reconstruct_MEG.py       pre-check, raw copy, optional BIDS           *)
(*                            conversion, relocate-output, extractor call  *)
(*                                                                         *)
(* Text (file names, ids, cell values) is a sequence of one-character      *)
(* strings, so that prefixes, substrings, case folding and the regular     *)
(* expression of the source are computed, not assumed.                     *)
(***************************************************************************)
EXTENDS Integers, Sequences, FiniteSets, TLC

VARIABLES
    \* ---- extract_subject_info.py : participants.tsv merge ----
    tsv,            \* the participants.tsv file: [exists, rows]
    tsv_before,     \* the file as it was before the last merge
    last_rec,       \* the record handed to the last merge
    n_merges,       \* merges done so far
    \* ---- extract_subject_info.py : extract_fields ----
    dcm,            \* the DICOM header read by extract_fields
    extracted,      \* what extract_fields returned, once done
    \* ---- reconstruct_MEG.py ----
    pc,             \* position of the script
    subject_dir,    \* name of the subject directory (sys.argv[1])
    do_bids,        \* conversion flag
    session_files,  \* session folder name -> set of file names in it
    todo,           \* session folders the main loop has not visited yet
    session,        \* session folder being processed
    subject_id,     \* the script's variable subject_id
    meg_files,      \* glob("*.fif") of the current session
    failed_bids_files,
    base_made,      \* reconstructed/ and raw/ exist (lines 120-121)
    raw_dirs,       \* session directories under raw/: set of <<id, session_id>>
    raw_files,      \* files under raw/: <<id, session_id, name>> -> content
    raw_before,     \* raw_files as the run found it
    recon,          \* reconstructed/: [top, meg], each <<id, session_id>> -> (entry -> content)
    recon_before,   \* recon as the run found it
    log             \* per session folder: what each step did and which id it used

mergeVars == <<tsv, tsv_before, last_rec, n_merges>>
ageVars   == <<dcm, extracted>>
runVars   == <<pc, subject_dir, do_bids, session_files, todo, session, subject_id,
               meg_files, failed_bids_files, base_made, raw_dirs, raw_files,
               raw_before, recon, recon_before, log>>
vars      == <<mergeVars, ageVars, runVars>>

-----------------------------------------------------------------------------
(* Bounds of the model *)

MaxMerges == 4
MaxLen == 2

-----------------------------------------------------------------------------
(* Text helpers *)

LowerLetters == <<"a","b","c","d","e","f","g","h","i","j","k","l","m",
                  "n","o","p","q","r","s","t","u","v","w","x","y","z">>
UpperLetters == <<"A","B","C","D","E","F","G","H","I","J","K","L","M",
                  "N","O","P","Q","R","S","T","U","V","W","X","Y","Z">>
Digits == <<"0","1","2","3","4","5","6","7","8","9">>

Range(s) == { s[i] : i \in DOMAIN s }
IndexOf(c, s) == CHOOSE i \in DOMAIN s : s[i] = c

UpperChar(c) == IF c \in Range(LowerLetters) THEN UpperLetters[IndexOf(c, LowerLetters)] ELSE c
LowerChar(c) == IF c \in Range(UpperLetters) THEN LowerLetters[IndexOf(c, UpperLetters)] ELSE c
Upper(s) == [i \in DOMAIN s |-> UpperChar(s[i])]
Lower(s) == [i \in DOMAIN s |-> LowerChar(s[i])]

IsSep(c)   == c \in {"-", "_"}
IsDigit(c) == c \in Range(Digits)
IsLowerLetter(c) == c \in Range(LowerLetters)
IsLowerAlnum(c)  == IsLowerLetter(c) \/ IsDigit(c)

\* s[from:] of Python
Drop(s, n) == SubSeq(s, n + 1, Len(s))
Take(s, n) == SubSeq(s, 1, n)
StartsWith(s, p) == Len(p) <= Len(s) /\ Take(s, Len(p)) = p
EndsWith(s, p)   == Len(p) <= Len(s) /\ Drop(s, Len(s) - Len(p)) = p
\* p in s
Contains(s, p) == \E i \in 0..(Len(s) - Len(p)) : SubSeq(s, i + 1, i + Len(p)) = p

\* s.replace(p, '') : every non-overlapping occurrence, left to right
RECURSIVE RemoveAll(_, _)
RemoveAll(s, p) ==
    IF s = <<>> \/ p = <<>> THEN s
    ELSE IF StartsWith(s, p) THEN RemoveAll(Drop(s, Len(p)), p)
    ELSE <<Head(s)>> \o RemoveAll(Tail(s), p)

\* re.sub(r'[-_]', '', s)
RECURSIVE RemoveSeps(_)
RemoveSeps(s) ==
    IF s = <<>> THEN s
    ELSE IF IsSep(Head(s)) THEN RemoveSeps(Tail(s))
    ELSE <<Head(s)>> \o RemoveSeps(Tail(s))

-----------------------------------------------------------------------------
(* extract_subject_info.py : update_participants_tsv *)

NA == <<"n","/","a">>
EmptyStr == <<>>
\* csv.DictReader's value for a cell the row does not have (restval)
None == <<"None">>

headers == {"participant_id", "session_id", "sex", "weight", "age"}

NoFile == [exists |-> FALSE, rows |-> <<>>]
HeaderOnly == [exists |-> TRUE, rows |-> <<>>]

\* lines 70-76: the rows of the file, none when the file does not exist
ReadTable(file) == IF file.exists THEN file.rows ELSE <<>>

\* lines 102-107: header and every row, a missing cell written as ''
CleanRow(row) == [h \in headers |-> IF row[h] = None THEN EmptyStr ELSE row[h]]
WriteTable(rows) == [exists |-> TRUE, rows |-> [i \in DOMAIN rows |-> CleanRow(rows[i])]]

\* lines 83-85
RowMatchesExactOnly(row, sid, ses) ==
    /\ row.participant_id = sid
    /\ row.session_id = ses
RowMatchesUpgradeOnly(row, sid, ses) ==
    /\ row.participant_id = sid
    /\ row.session_id = NA /\ ses # NA
RowMatches(row, sid, ses) ==
    /\ row.participant_id = sid
    /\ \/ row.session_id = ses
       \/ (row.session_id = NA /\ ses # NA)

\* lines 79-91: the loop stops at the first matching row (0: none matched)
FirstMatchLast(rows, sid, ses) ==
    IF \E i \in DOMAIN rows : RowMatches(rows[i], sid, ses)
    THEN CHOOSE i \in DOMAIN rows :
            /\ RowMatches(rows[i], sid, ses)
            /\ \A j \in DOMAIN rows : RowMatches(rows[j], sid, ses) => j <= i
    ELSE 0
FirstMatch(rows, sid, ses) ==
    IF \E i \in DOMAIN rows : RowMatches(rows[i], sid, ses)
    THEN CHOOSE i \in DOMAIN rows :
            /\ RowMatches(rows[i], sid, ses)
            /\ \A j \in 1..(i - 1) : ~RowMatches(rows[j], sid, ses)
    ELSE 0

\* lines 86-89
OverwriteKeepSex(row, ses, sex, weight, age) ==
    [row EXCEPT !.session_id = ses, !.weight = weight, !.age = age]
Overwrite(row, ses, sex, weight, age) ==
    [row EXCEPT !.session_id = ses, !.sex = sex, !.weight = weight, !.age = age]

\* lines 94-99
NewRow(sid, ses, sex, weight, age) ==
    [participant_id |-> sid, session_id |-> ses, sex |-> sex, weight |-> weight, age |-> age]

\* lines 66-107
update_participants_tsv(file, sid, ses, sex, weight, age) ==
    LET rows == ReadTable(file)
        k == FirstMatch(rows, sid, ses)
        merged == IF k > 0
                  THEN [rows EXCEPT ![k] = Overwrite(rows[k], ses, sex, weight, age)]
                  ELSE Append(rows, NewRow(sid, ses, sex, weight, age))
    IN  WriteTable(merged)

Merge(file, r) ==
    update_participants_tsv(file, r.participant_id, r.session_id, r.sex, r.weight, r.age)

-----------------------------------------------------------------------------
(* extract_subject_info.py : extract_fields *)

YearSpan == 2

\* dcm.get(tag, None) of an element the header does not have
Missing == <<"Missing">>
Pending == [done |-> FALSE, sex |-> <<>>, weight |-> <<>>, age |-> <<>>]

\* str(n) of Python, for an integer n
RECURSIVE NatText(_)
NatText(n) == IF n < 10 THEN <<Digits[n + 1]>> ELSE NatText(n \div 10) \o <<Digits[(n % 10) + 1]>>
Str(n) == IF n < 0 THEN <<"-">> \o NatText(-n) ELSE NatText(n)

DigitVal(c) == IndexOf(c, Digits) - 1
RECURSIVE NatVal(_)
NatVal(t) == IF t = <<>> THEN 0 ELSE 10 * NatVal(Take(t, Len(t) - 1)) + DigitVal(t[Len(t)])
AllDigits(t) == t # <<>> /\ \A i \in DOMAIN t : IsDigit(t[i])

\* the '%Y%m%d' text of a date, zero padded
Pad(n, w) == LET t == NatText(n) IN [i \in 1..(w - Len(t)) |-> "0"] \o t
DateText(y, m, d) == Pad(y, 4) \o Pad(m, 2) \o Pad(d, 2)

IsLeap(y) == (y % 4 = 0 /\ y % 100 # 0) \/ y % 400 = 0
DaysIn(y, m) == IF m = 2 THEN (IF IsLeap(y) THEN 29 ELSE 28)
                ELSE IF m \in {4, 6, 9, 11} THEN 30 ELSE 31

\* lines 55-56: datetime.strptime(text, '%Y%m%d') on an eight-digit text;
\* anything else, or a date the calendar does not have, raises (ok = FALSE)
Strptime(t) ==
    IF Len(t) = 8 /\ AllDigits(t)
    THEN LET y == NatVal(SubSeq(t, 1, 4))
             m == NatVal(SubSeq(t, 5, 6))
             d == NatVal(SubSeq(t, 7, 8))
         IN  IF y >= 1 /\ m \in 1..12 /\ d >= 1 /\ d <= DaysIn(y, m)
             THEN [ok |-> TRUE, year |-> y, month |-> m, day |-> d]
             ELSE [ok |-> FALSE, year |-> 0, month |-> 0, day |-> 0]
    ELSE [ok |-> FALSE, year |-> 0, month |-> 0, day |-> 0]

\* line 57: (study.month, study.day) < (dob.month, dob.day), Python's tuple order
TupleLessOrEqual(a, b) == a[1] < b[1] \/ (a[1] = b[1] /\ a[2] <= b[2])
TupleLess(a, b) == a[1] < b[1] \/ (a[1] = b[1] /\ a[2] < b[2])

\* lines 51-62: age from the study and birth dates
AgeFromDates(study, birth) ==
    IF study # Missing /\ birth # Missing
    THEN LET dob == Strptime(birth)
             study_date == Strptime(study)
         IN  IF dob.ok /\ study_date.ok
             THEN Str(study_date.year - dob.year
                      - (IF TupleLess(<<study_date.month, study_date.day>>,
                                      <<dob.month, dob.day>>) THEN 1 ELSE 0))
             ELSE NA
    ELSE NA

\* lines 43-49: an explicit age: a trailing unit code dropped, leading zeros
\* removed when what is left is a number
AgeFromElement(value) ==
    LET age_raw == IF value[Len(value)] \in {"Y", "M", "D"}
                   THEN Take(value, Len(value) - 1) ELSE value
    IN  IF AllDigits(age_raw) THEN Str(NatVal(age_raw)) ELSE age_raw

\* lines 16-64
extract_fields(d) ==
    IF ~d.readable THEN [sex |-> NA, weight |-> NA, age |-> NA]
    ELSE [sex    |-> IF d.sex = Missing \/ d.sex = EmptyStr THEN NA ELSE d.sex,
          weight |-> IF d.weight = Missing \/ d.weight = EmptyStr THEN NA ELSE d.weight,
          age    |-> IF d.age # Missing /\ d.age # EmptyStr
                     THEN AgeFromElement(d.age)
                     ELSE AgeFromDates(d.study, d.birth)]


-----------------------------------------------------------------------------
(* reconstruct_MEG.py : names *)

MaxFiles == 2

DOT_FIF    == <<".","f","i","f">>
DOT_FIF_GZ == <<".","f","i","f",".","g","z">>
SUB        == <<"s","u","b">>
RAW        == <<"r","a","w">>

\* lines 63-73
StripSubPrefix(s) ==
    IF Len(s) >= 4 /\ Lower(Take(s, 3)) = SUB /\ IsSep(s[4]) THEN Drop(s, 4) ELSE s
normalize_subject_id(subj_id) == Upper(RemoveSeps(StripSubPrefix(subj_id)))

\* line 135
DirSubjectId(name) ==
    Upper(RemoveAll(RemoveAll(RemoveAll(name, <<"_">>), <<"s","u","b","-">>),
                    <<"s","u","b","_">>))

\* pathlib: f.suffix and f.stem (the last dot, unless it starts or ends the name)
LastDot(name) ==
    IF \E i \in DOMAIN name : name[i] = "."
    THEN CHOOSE i \in DOMAIN name : name[i] = "." /\ \A j \in (i + 1)..Len(name) : name[j] # "."
    ELSE 0
Suffix(name) ==
    LET i == LastDot(name) IN IF 1 < i /\ i < Len(name) THEN Drop(name, i - 1) ELSE <<>>
Stem(name) ==
    LET i == LastDot(name) IN IF 1 < i /\ i < Len(name) THEN Take(name, i - 1) ELSE name

\* line 84: the files the pre-check looks at
IsChecked(f) == Lower(Suffix(f)) \in {DOT_FIF, DOT_FIF_GZ}

\* lines 75-92
subject_has_invalid_files(files, dir_name) ==
    LET expected_sub_id == normalize_subject_id(dir_name)
    IN  \E f \in files :
            /\ IsChecked(f)
            /\ ~Contains(Upper(Stem(f)), Upper(expected_sub_id))

\* line 129: session_folder.glob("*.fif")
Glob(files) == { f \in files : EndsWith(f, DOT_FIF) }

\* the end of the longest run of characters satisfying a class, from position i
RECURSIVE AlnumEnd(_, _)
AlnumEnd(s, i) == IF i <= Len(s) /\ IsLowerAlnum(s[i]) THEN AlnumEnd(s, i + 1) ELSE i - 1
RECURSIVE LetterEnd(_, _)
LetterEnd(s, i) == IF i <= Len(s) /\ IsLowerLetter(s[i]) THEN LetterEnd(s, i + 1) ELSE i - 1
RECURSIVE DigitEnd(_, _)
DigitEnd(s, i) == IF i <= Len(s) /\ IsDigit(s[i]) THEN DigitEnd(s, i + 1) ELSE i - 1

NoMatch == [ok |-> FALSE, subject |-> <<>>, task |-> <<>>, run |-> <<>>]

\* line 171, after the optional prefix, which ended at position start:
\*   ([a-z0-9]+)[-_]([a-z]+[0-9]*)[_-]raw
\* lines 181-184: the task is the letters of the second group, the run its digits
MatchFrom(s, start) ==
    LET e1 == AlnumEnd(s, start + 1)
        e2 == LetterEnd(s, e1 + 2)
        e3 == DigitEnd(s, e2 + 1)
    IN  IF /\ e1 >= start + 1
           /\ e1 + 1 <= Len(s) /\ IsSep(s[e1 + 1])
           /\ e2 >= e1 + 2
           /\ e3 + 1 <= Len(s) /\ IsSep(s[e3 + 1])
           /\ SubSeq(s, e3 + 2, e3 + 4) = RAW
        THEN [ok |-> TRUE,
              subject |-> SubSeq(s, start + 1, e1),
              task |-> SubSeq(s, e1 + 2, e2),
              run |-> SubSeq(s, e2 + 1, e3)]
        ELSE NoMatch

\* line 171: ^(?:sub[-_]?)? tried in the order of the regular expression:
\* "sub" and a separator, "sub" alone, no prefix
PrefixEnds(s) ==
    (IF StartsWith(s, SUB) /\ Len(s) >= 4 /\ IsSep(s[4]) THEN <<4>> ELSE <<>>)
    \o (IF StartsWith(s, SUB) THEN <<3>> ELSE <<>>)
    \o <<0>>
RECURSIVE FirstMatching(_, _)
FirstMatching(s, starts) ==
    IF starts = <<>> THEN NoMatch
    ELSE IF MatchFrom(s, Head(starts)).ok THEN MatchFrom(s, Head(starts))
    ELSE FirstMatching(s, Tail(starts))

\* lines 167-187: subject (upper-cased), task and run from a recording's name
ParseName(name) ==
    LET fname == RemoveAll(RemoveAll(Lower(name), DOT_FIF), DOT_FIF_GZ)
        m == FirstMatching(fname, PrefixEnds(fname))
    IN  [m EXCEPT !.subject = Upper(m.subject)]

\* line 126
SessionId(session_id_short) == <<"2","0">> \o session_id_short


-----------------------------------------------------------------------------
(* reconstruct_MEG.py : the inputs of a run *)

DIR_SUB_DASH == <<"s","u","b","-","B","1">>
DIR_SUB_UNDER == <<"s","u","b","_","B","1">>
DirNames == {DIR_SUB_DASH, DIR_SUB_UNDER}

F_OK    == <<"B","1","_","r","e","s","t","_","r","a","w",".","f","i","f">>
F_SUB   == <<"s","u","b","-","b","1","_","t","a","s","k","2","-","r","a","w",".","f","i","f">>
F_SWAP  == <<"r","e","s","t","_","B","1","_","r","a","w",".","f","i","f">>
F_NOPAT == <<"B","1",".","f","i","f">>
F_OTHER == <<"C","2","_","r","e","s","t","_","r","a","w",".","f","i","f">>
F_GZ    == <<"C","2","_","r","e","s","t","_","r","a","w",".","f","i","f",".","g","z">>
F_TXT   == <<"n","o","t","e","s",".","t","x","t">>
FileNames == {F_OK, F_SUB, F_SWAP, F_NOPAT, F_OTHER, F_GZ, F_TXT}

S1 == <<"0","1">>
S2 == <<"0","2">>
Sessions == {S1, S2}

\* what a session folder may hold: any MaxFiles names in the first folder,
\* one of a few contents in the second
FolderContents(s) ==
    IF s = S1 THEN { fs \in SUBSET FileNames : Cardinality(fs) <= MaxFiles }
    ELSE { {}, {F_OK}, {F_TXT}, {F_SUB, F_GZ} }

NoTree == [top |-> <<>>, meg |-> <<>>]
BIDS_OLD == <<"o","l","d",".","f","i","f">>

\* a raw archive and a converted-output tree left by an earlier run of the
\* first session: one file already at the copy's destination, and a meg/
\* folder holding an entry also present one level up
SeededRaw(dir_name) == (<<DirSubjectId(dir_name), SessionId(S1), F_OK>> :> "sentinel")
SeededRecon(dir_name) ==
    LET key == <<DirSubjectId(dir_name), SessionId(S1)>>
    IN  [top |-> (key :> (BIDS_OLD :> "stale")), meg |-> (key :> (BIDS_OLD :> "fresh"))]

NoLog == [found |-> FALSE, copied |-> FALSE, raw_id |-> None,
          converted |-> FALSE, load_failed |-> FALSE, parse_failed |-> FALSE,
          write_failed |-> FALSE, relocated |-> FALSE, relocate_id |-> None,
          updates |-> 0, extractor_failed |-> FALSE,
          participant_id |-> None, dicom_id |-> None]

\* the DICOM headers the extractor may find under raw_sorted/
DcmSample ==
    [readable |-> TRUE, sex |-> <<"F">>, weight |-> <<"5","5">>,
     age |-> <<"0","3","4","Y">>, study |-> Missing, birth |-> Missing]

-----------------------------------------------------------------------------
(* reconstruct_MEG.py : the steps of a run *)

\* subject_has_invalid_files and line 135 for every directory name and folder
\* content of the model, computed once
InvalidFiles ==
    [d \in DirNames |-> [fs \in SUBSET FileNames |-> subject_has_invalid_files(fs, d)]]
RawId == [d \in DirNames |-> DirSubjectId(d)]
Recordings == [fs \in SUBSET FileNames |-> Glob(fs)]

\* lines 94-106: the pre-check over every session folder
invalid_subject_of(files_of, dir_name) ==
    \E s \in DOMAIN files_of : InvalidFiles[dir_name][files_of[s]]

PreCheck ==
    /\ pc = "precheck"
    /\ pc' = IF invalid_subject_of(session_files, subject_dir) THEN "skipped" ELSE "setup"
    /\ UNCHANGED <<subject_dir, do_bids, session_files, todo, session, subject_id,
                   meg_files, failed_bids_files, base_made, raw_dirs, raw_files,
                   raw_before, recon, recon_before, log>>
    /\ UNCHANGED <<mergeVars, ageVars>>

\* lines 108-122
Setup ==
    /\ pc = "setup"
    /\ base_made' = TRUE
    /\ failed_bids_files' = <<>>
    /\ pc' = "loop"
    /\ UNCHANGED <<subject_dir, do_bids, session_files, todo, session, subject_id,
                   meg_files, raw_dirs, raw_files, raw_before, recon, recon_before, log>>
    /\ UNCHANGED <<mergeVars, ageVars>>

\* lines 123-132: the next session folder; one without *.fif is logged and left
Discover ==
    /\ pc = "loop"
    /\ \E s \in todo :
        /\ todo' = todo \ {s}
        /\ session' = s
        /\ meg_files' = Recordings[session_files[s]]
        /\ log' = [log EXCEPT ![s].found = TRUE]
        /\ pc' = IF Recordings[session_files[s]] = {} THEN "loop" ELSE "copy"
    /\ UNCHANGED <<subject_dir, do_bids, session_files, subject_id, failed_bids_files,
                   base_made, raw_dirs, raw_files, raw_before, recon, recon_before>>
    /\ UNCHANGED <<mergeVars, ageVars>>

\* lines 142-144: one file of the session folder
CopyOneOverwrite(raw, key) == (key :> "src") @@ raw
CopyOne(raw, key) == IF key \in DOMAIN raw THEN raw ELSE raw @@ (key :> "src")

\* lines 140-144
RECURSIVE CopyFiles(_, _, _, _)
CopyFiles(raw, id, ses, files) ==
    IF files = {} THEN raw
    ELSE LET f == CHOOSE x \in files : TRUE
         IN  CopyFiles(CopyOne(raw, <<id, ses, f>>), id, ses, files \ {f})

\* lines 134-145
Copy ==
    /\ pc = "copy"
    /\ LET id == RawId[subject_dir]
           ses == SessionId(session)
       IN  /\ subject_id' = id
           /\ raw_dirs' = raw_dirs \cup {<<id, ses>>}
           /\ raw_files' = CopyFiles(raw_files, id, ses, session_files[session])
           /\ log' = [log EXCEPT ![session].copied = TRUE, ![session].raw_id = id]
    /\ pc' = IF do_bids THEN "convert" ELSE "relocate"
    /\ UNCHANGED <<subject_dir, do_bids, session_files, todo, session, meg_files,
                   failed_bids_files, base_made, raw_before, recon, recon_before>>
    /\ UNCHANGED <<mergeVars, ageVars>>


\* lines 189-197: the entry write_raw_bids makes in the meg/ folder
BidsName(task, run) ==
    <<"t","a","s","k","-">> \o task
    \o (IF run = <<>> THEN <<>> ELSE <<"_","r","u","n","-">> \o Str(NatVal(run)))
    \o DOT_FIF

DirOf(dirs, key) == IF key \in DOMAIN dirs THEN dirs[key] ELSE <<>>

\* lines 202-207: write_raw_bids(raw, bids_path, overwrite=True) puts the
\* recording in <root>/sub-<id>/ses-<session_id>/meg/
WriteBids(tree, id, ses, name) ==
    LET key == <<id, ses>>
    IN  [top |-> (key :> DirOf(tree.top, key)) @@ tree.top,
         meg |-> (key :> ((name :> "converted") @@ DirOf(tree.meg, key))) @@ tree.meg]

\* ParseName of every name of the model, computed once
Parsed == [f \in FileNames |-> ParseName(f)]

\* lines 210-213: a failure of the writer is caught and the loop goes on
AfterWriter(outcome) == "relocate"

\* lines 149-213, one recording. st is [subject_id, failed, tree], the failures
\* seen so far and where the script goes after the loop; outcome says whether
\* read_raw_fif and write_raw_bids raise
ConvertFile(st, f, ses, outcome) ==
    IF st.goes # "relocate" THEN st
    ELSE IF outcome = "load_fails" THEN [st EXCEPT !.load_failed = TRUE]
    ELSE LET m == Parsed[f]
         IN  IF ~m.ok THEN [st EXCEPT !.parse_failed = TRUE]
             ELSE IF outcome = "ok"
                  THEN [st EXCEPT !.subject_id = m.subject,
                                  !.tree = WriteBids(st.tree, m.subject, ses,
                                                     BidsName(m.task, m.run))]
                  ELSE [st EXCEPT !.subject_id = m.subject,
                                  !.failed = Append(st.failed, f),
                                  !.write_failed = TRUE,
                                  !.goes = AfterWriter(outcome)]

\* lines 149-213: the recordings of the session, in the order glob gave them
RECURSIVE ConvertLoop(_, _, _, _)
ConvertLoop(st, order, ses, outcomes) ==
    IF order = <<>> THEN st
    ELSE ConvertLoop(ConvertFile(st, Head(order), ses, outcomes[Head(order)]),
                     Tail(order), ses, outcomes)

Orders(files) ==
    { o \in [1..Cardinality(files) -> files] : \A i, j \in DOMAIN o : i # j => o[i] # o[j] }

\* lines 148-219
Convert ==
    /\ pc = "convert"
    /\ \E order \in Orders(meg_files),
          outcomes \in [meg_files -> {"ok", "load_fails", "write_fails"}] :
         LET st0 == [subject_id |-> subject_id, failed |-> failed_bids_files, tree |-> recon,
                     load_failed |-> FALSE, parse_failed |-> FALSE, write_failed |-> FALSE,
                     goes |-> "relocate"]
             st == ConvertLoop(st0, order, SessionId(session), outcomes)
         IN  /\ subject_id' = st.subject_id
             /\ failed_bids_files' = st.failed
             /\ recon' = st.tree
             /\ log' = [log EXCEPT ![session].converted = TRUE,
                                   ![session].load_failed = st.load_failed,
                                   ![session].parse_failed = st.parse_failed,
                                   ![session].write_failed = st.write_failed]
             /\ pc' = st.goes
    /\ UNCHANGED <<subject_dir, do_bids, session_files, todo, session, meg_files,
                   base_made, raw_dirs, raw_files, raw_before, recon_before>>
    /\ UNCHANGED <<mergeVars, ageVars>>

\* lines 225-238: every entry of meg/ moved one level up, over what is there
Flatten(tree, key) ==
    [top |-> (key :> (tree.meg[key] @@ DirOf(tree.top, key))) @@ tree.top,
     meg |-> [k \in DOMAIN tree.meg \ {key} |-> tree.meg[k]]]

\* lines 221-239
Relocate ==
    /\ pc = "relocate"
    /\ LET key == <<subject_id, SessionId(session)>>
       IN  IF key \in DOMAIN recon.meg
           THEN /\ recon' = Flatten(recon, key)
                /\ log' = [log EXCEPT ![session].relocated = TRUE,
                                      ![session].relocate_id = subject_id]
           ELSE /\ recon' = recon
                /\ log' = [log EXCEPT ![session].relocate_id = subject_id]
    /\ pc' = "update"
    /\ UNCHANGED <<subject_dir, do_bids, session_files, todo, session, subject_id,
                   meg_files, failed_bids_files, base_made, raw_dirs, raw_files,
                   raw_before, recon_before>>
    /\ UNCHANGED <<mergeVars, ageVars>>

\* lines 260-264: a non-zero exit of the extractor is logged, the loop goes on
AfterExtractorUncaught(outcome) == IF outcome = "failed" THEN "crashed" ELSE "loop"
AfterExtractor(outcome) == "loop"

\* extract_subject_info.py lines 109-118: main
Demographics(outcome) ==
    IF outcome = "dicom" THEN extract_fields(DcmSample)
    ELSE [sex |-> NA, weight |-> NA, age |-> NA]

\* lines 241-264
UpdateParticipants ==
    /\ pc = "update"
    /\ \E outcome \in {"failed", "no_dicom", "dicom"} :
         LET file == IF tsv.exists THEN tsv ELSE HeaderOnly
             d == Demographics(outcome)
         IN  /\ tsv' = IF outcome = "failed" THEN file
                       ELSE update_participants_tsv(file,
                                <<"s","u","b","-">> \o subject_id,
                                <<"s","e","s","-">> \o SessionId(session),
                                d.sex, d.weight, d.age)
             /\ log' = [log EXCEPT ![session].updates = @ + 1,
                                   ![session].extractor_failed = (outcome = "failed"),
                                   ![session].participant_id = subject_id,
                                   ![session].dicom_id = subject_id]
             /\ pc' = AfterExtractor(outcome)
    /\ UNCHANGED <<tsv_before, last_rec, n_merges, ageVars>>
    /\ UNCHANGED <<subject_dir, do_bids, session_files, todo, session, subject_id,
                   meg_files, failed_bids_files, base_made, raw_dirs, raw_files,
                   raw_before, recon, recon_before>>

\* line 267
Finish ==
    /\ pc = "loop"
    /\ todo = {}
    /\ pc' = "done"
    /\ UNCHANGED <<subject_dir, do_bids, session_files, todo, session, subject_id,
                   meg_files, failed_bids_files, base_made, raw_dirs, raw_files,
                   raw_before, recon, recon_before, log>>
    /\ UNCHANGED <<mergeVars, ageVars>>

NoRec == [participant_id |-> None, session_id |-> None, sex |-> None,
          weight |-> None, age |-> None]
NoDcm == [readable |-> FALSE, sex |-> Missing, weight |-> Missing, age |-> Missing,
          study |-> Missing, birth |-> Missing]

MergeIdle == tsv_before = NoFile /\ last_rec = NoRec /\ n_merges = 0
AgeIdle == dcm = NoDcm /\ extracted = Pending
RunIdle ==
    /\ pc = "idle" /\ subject_dir = <<>> /\ do_bids = FALSE
    /\ session_files = <<>> /\ todo = {} /\ session = <<>> /\ subject_id = None
    /\ meg_files = {} /\ failed_bids_files = <<>> /\ base_made = FALSE
    /\ raw_dirs = {} /\ raw_files = <<>> /\ raw_before = <<>>
    /\ recon = NoTree /\ recon_before = NoTree /\ log = <<>>

\* a run of reconstruct_MEG.py on a subject directory, on a fresh archive or on
\* one an earlier run has written to
Init ==
    /\ pc = "precheck"
    /\ subject_dir \in DirNames
    /\ do_bids \in BOOLEAN
    /\ session_files \in { (S1 :> a) @@ (S2 :> b) :
                             a \in FolderContents(S1), b \in FolderContents(S2) }
    /\ todo = Sessions
    /\ session = <<>>
    /\ subject_id = None
    /\ meg_files = {}
    /\ failed_bids_files = <<>>
    /\ \E seeded \in BOOLEAN :
         /\ base_made = seeded
         /\ raw_files = IF seeded THEN SeededRaw(subject_dir) ELSE <<>>
         /\ raw_dirs = IF seeded THEN {<<DirSubjectId(subject_dir), SessionId(S1)>>} ELSE {}
         /\ recon = IF seeded THEN SeededRecon(subject_dir) ELSE NoTree
         /\ tsv = IF seeded THEN HeaderOnly ELSE NoFile
    /\ raw_before = raw_files
    /\ recon_before = recon
    /\ log = [s \in Sessions |-> NoLog]
    /\ MergeIdle
    /\ AgeIdle

Next ==
    \/ PreCheck
    \/ Setup
    \/ Discover
    \/ Copy
    \/ Convert
    \/ Relocate
    \/ UpdateParticipants
    \/ Finish

Spec == Init /\ [][Next]_vars


-----------------------------------------------------------------------------
(* extract_subject_info.py : merges into a participants table *)

P_A == <<"s","u","b","-","A">>
P_B == <<"s","u","b","-","B">>
SES_1 == <<"s","e","s","-","1">>
SES_2 == <<"s","e","s","-","2">>

Records ==
    { NewRow(p, ses, d[1], d[2], d[3]) :
        p \in {P_A, P_B}, ses \in {NA, SES_1, SES_2},
        d \in { <<<<"M">>, <<"7","0">>, <<"3","0">>>>, <<<<"F">>, <<"5","5">>, NA>> } }

\* every table of at most n rows
RECURSIVE TablesUpTo(_)
TablesUpTo(n) ==
    IF n = 0 THEN { <<>> }
    ELSE TablesUpTo(n - 1)
         \cup { Append(t, r) : t \in { u \in TablesUpTo(n - 1) : Len(u) = n - 1 }, r \in Records }

\* merges from an absent or header-only file
InitMerge ==
    /\ tsv \in {NoFile, HeaderOnly}
    /\ tsv_before = tsv
    /\ last_rec = NoRec
    /\ n_merges = 0
    /\ AgeIdle
    /\ RunIdle

MergeRecord ==
    /\ n_merges < MaxMerges
    /\ \E r \in Records :
        /\ tsv' = Merge(tsv, r)
        /\ last_rec' = r
    /\ tsv_before' = tsv
    /\ n_merges' = n_merges + 1
    /\ UNCHANGED <<ageVars, runVars>>

NextMerge == MergeRecord

SpecMerge == InitMerge /\ [][NextMerge]_vars

\* the same record merged twice into any table of at most MaxLen rows
InitIdem ==
    /\ tsv \in {NoFile} \cup { [exists |-> TRUE, rows |-> t] : t \in TablesUpTo(MaxLen) }
    /\ tsv_before = tsv
    /\ last_rec \in Records
    /\ n_merges = 0
    /\ AgeIdle
    /\ RunIdle

Rerun ==
    /\ n_merges < 2
    /\ tsv' = Merge(tsv, last_rec)
    /\ tsv_before' = tsv
    /\ n_merges' = n_merges + 1
    /\ UNCHANGED <<last_rec, ageVars, runVars>>

NextIdem == Rerun

SpecIdem == InitIdem /\ [][NextIdem]_vars

-----------------------------------------------------------------------------
(* extract_subject_info.py : extract_fields on a header *)

Years  == 1999..(1999 + YearSpan)
Months == {1, 2, 3, 12, 13}
Days   == {1, 15, 28, 29, 30, 31}
DateTexts == { DateText(y, m, d) : y \in Years, m \in Months, d \in Days }

DcmHeaders ==
    [readable : {TRUE}, sex : {<<"M">>}, weight : {<<"7","0">>}, age : {Missing, EmptyStr},
     study : DateTexts \cup {Missing, EmptyStr}, birth : DateTexts \cup {Missing, EmptyStr}]
    \cup [readable : BOOLEAN, sex : {Missing, EmptyStr, <<"F">>}, weight : {Missing, EmptyStr, <<"5","5">>},
          age : {<<"0","3","4","Y">>, <<"0","0","7">>, <<"1","2","M">>, <<"Y">>, <<"a","b">>},
          study : {DateText(2000, 3, 15)}, birth : {Missing}]

InitAge ==
    /\ dcm \in DcmHeaders
    /\ extracted = Pending
    /\ tsv = NoFile
    /\ MergeIdle
    /\ RunIdle

Extract ==
    /\ ~extracted.done
    /\ extracted' = [done |-> TRUE] @@ extract_fields(dcm)
    /\ UNCHANGED <<dcm, mergeVars, runVars>>

NextAge == Extract

SpecAge == InitAge /\ [][NextAge]_vars


-----------------------------------------------------------------------------
(* Properties of the participants.tsv merge *)

Key(row) == <<row.participant_id, row.session_id>>

\* C1: in every table reachable from an absent or header-only file by merges,
\* no two rows have the same (participant_id, session_id)
C1_UniqueKeys ==
    \A i, j \in DOMAIN tsv.rows : i # j => Key(tsv.rows[i]) # Key(tsv.rows[j])

\* C1 witness: three rows with a placeholder row among them, after a merge
\* that updated a row instead of appending one
C1_Witness ==
    /\ Len(tsv.rows) >= 3
    /\ n_merges > Len(tsv.rows)
    /\ \E i, j \in DOMAIN tsv.rows :
        /\ i # j
        /\ tsv.rows[i].participant_id = tsv.rows[j].participant_id
        /\ tsv.rows[j].session_id = NA

\* C2: merging the same record a second time leaves the table as the first
\* merge left it, whatever the table was
C2_Idempotent == n_merges = 2 => tsv = tsv_before

\* C2 witness: both merges done on a table with two rows of the record's
\* participant, one of them a placeholder row
C2_Witness ==
    /\ n_merges = 2
    /\ \E i, j \in DOMAIN tsv.rows :
        /\ i < j
        /\ tsv.rows[i].participant_id = last_rec.participant_id
        /\ tsv.rows[j].participant_id = last_rec.participant_id
        /\ tsv.rows[j].session_id = NA
        /\ tsv.rows[i].session_id = last_rec.session_id

HadKey == \E i \in DOMAIN tsv_before.rows : Key(tsv_before.rows[i]) = Key(last_rec)

\* a row the record's search accepts, as section 4.2 words it
Accepts(row, r) ==
    /\ row.participant_id = r.participant_id
    /\ \/ row.session_id = r.session_id
       \/ (row.session_id = NA /\ r.session_id # NA)

IsPlaceholderOf(row, r) == row.participant_id = r.participant_id /\ row.session_id = NA

Upgraded(i) ==
    tsv.rows[i] = [tsv_before.rows[i] EXCEPT !.session_id = last_rec.session_id,
                                             !.sex = last_rec.sex,
                                             !.weight = last_rec.weight,
                                             !.age = last_rec.age]

\* C4 as claimed: a placeholder row of the record's participant is upgraded
\* by every merge of a record with a real session, and no row is appended
C4_Claimed ==
    (n_merges > 0 /\ last_rec.session_id # NA) =>
        \A i \in DOMAIN tsv_before.rows :
            IsPlaceholderOf(tsv_before.rows[i], last_rec) =>
                Upgraded(i) /\ Len(tsv.rows) = Len(tsv_before.rows)

\* C4 amended: the first placeholder row of the record's participant is
\* upgraded when no row before it has the record's key; whether or not one
\* has, no row is appended
C4_UpgradeUnlessKeyed ==
    (n_merges > 0 /\ last_rec.session_id # NA) =>
        \A i \in DOMAIN tsv_before.rows :
            (/\ IsPlaceholderOf(tsv_before.rows[i], last_rec)
             /\ \A j \in 1..(i - 1) : ~IsPlaceholderOf(tsv_before.rows[j], last_rec))
            => /\ Len(tsv.rows) = Len(tsv_before.rows)
               /\ (\A j \in 1..(i - 1) : Key(tsv_before.rows[j]) # Key(last_rec))
                    => Upgraded(i)

\* C4 witness: a placeholder row, with rows of other sessions before it, was
\* upgraded to the record's session
C4_Witness ==
    /\ n_merges > 0
    /\ last_rec.session_id # NA
    /\ \E i \in DOMAIN tsv_before.rows :
        /\ i > 1
        /\ IsPlaceholderOf(tsv_before.rows[i], last_rec)
        /\ tsv_before.rows[i - 1].participant_id = last_rec.participant_id
        /\ Upgraded(i)
        /\ tsv.rows[i].session_id = last_rec.session_id
        /\ tsv.rows[i].sex # tsv_before.rows[i].sex


-----------------------------------------------------------------------------
(* Properties of extract_fields *)

\* the calendar dates of the model and their eight-digit texts
CalendarDates ==
    { ymd \in Years \X (1..12) \X (1..31) :
        /\ ymd[2] \in Months /\ ymd[3] \in Days
        /\ ymd[3] <= DaysIn(ymd[1], ymd[2]) }
CalendarText == [ymd \in CalendarDates |-> DateText(ymd[1], ymd[2], ymd[3])]
IsValidDateText(t) == \E ymd \in CalendarDates : CalendarText[ymd] = t
DateOf(t) == CHOOSE ymd \in CalendarDates : CalendarText[ymd] = t

Ordinal(y, m, d) == y * 10000 + m * 100 + d

\* the birthdays (anniversaries of the birth date) that have come by the study date
Birthdays(b, st) ==
    Cardinality({ n \in 1..(YearSpan + 1) :
                    Ordinal(b[1] + n, b[2], b[3]) <= Ordinal(st[1], st[2], st[3]) })

NoExplicitAge == dcm.readable /\ dcm.age \in {Missing, EmptyStr}

\* C8: with no explicit age and two valid eight-digit dates, the age is the
\* study year minus the birth year, less one exactly when the study's
\* (month, day) is earlier than the birth's; from the birth date on, that is
\* the number of birthdays that have come
C8_AgeIsFullCalendarYears ==
    (/\ extracted.done
     /\ NoExplicitAge
     /\ IsValidDateText(dcm.birth)
     /\ IsValidDateText(dcm.study))
    => LET b == DateOf(dcm.birth)
           st == DateOf(dcm.study)
           earlier == st[2] * 100 + st[3] < b[2] * 100 + b[3]
       IN  /\ extracted.age = Str(st[1] - b[1] - (IF earlier THEN 1 ELSE 0))
           /\ Ordinal(st[1], st[2], st[3]) >= Ordinal(b[1], b[2], b[3])
                => extracted.age = Str(Birthdays(b, st))

\* C8 witness: a study in the birth month, before the birthday, in a later
\* year: the age is one less than the difference of the years
C8_Witness ==
    /\ extracted.done
    /\ NoExplicitAge
    /\ IsValidDateText(dcm.birth)
    /\ IsValidDateText(dcm.study)
    /\ DateOf(dcm.study)[1] = DateOf(dcm.birth)[1] + 2
    /\ DateOf(dcm.study)[2] = DateOf(dcm.birth)[2]
    /\ DateOf(dcm.study)[3] < DateOf(dcm.birth)[3]
    /\ extracted.age = <<"1">>

-----------------------------------------------------------------------------
(* Properties of a run of reconstruct_MEG.py *)

CanonicalId == normalize_subject_id(subject_dir)

\* a file of some session folder whose name does not contain the canonical id
HasForeignFile ==
    \E s \in Sessions : \E f \in session_files[s] : ~Contains(Upper(f), CanonicalId)

\* C5 as claimed: a subject with such a file is skipped whole: no session of
\* it reaches the copy step, nothing is copied, no session directory is made
\* in the raw archive, the table is not updated
C5_Claimed ==
    HasForeignFile =>
        /\ pc \notin {"copy", "convert", "relocate", "update"}
        /\ raw_files = raw_before
        /\ raw_dirs = { <<k[1], k[2]>> : k \in DOMAIN raw_before }
        /\ \A s \in Sessions : ~log[s].copied /\ log[s].updates = 0

HasRecordings(s) == Recordings[session_files[s]] # {}

\* how far the script is from its end: five positions for each session folder
\* still to visit, and the positions left in the current one
PosRank ==
    [p \in {"precheck", "setup", "copy", "convert", "relocate", "update", "loop",
            "done", "skipped", "crashed"} |->
        CASE p = "precheck" -> 8
          [] p = "setup"    -> 7
          [] p = "copy"     -> 5
          [] p = "convert"  -> 4
          [] p = "relocate" -> 3
          [] p = "update"   -> 2
          [] p = "loop"     -> 1
          [] OTHER          -> 0]
Rank == 5 * Cardinality(todo) + PosRank[pc]

\* C6: whatever fails, the script is never ended by an exception, no session
\* reaches the update step twice, after the update step the script is back at
\* the head of the loop, every step brings the end of the run nearer, and at
\* the end every session folder with a recording has reached the update step
\* exactly once
C6_EverySessionUpdatedOnce ==
    /\ [](pc # "crashed")
    /\ [](\A s \in Sessions : log[s].updates <= 1)
    /\ [](\A s \in Sessions :
            (log[s].updates = 1 /\ session = s) => pc \in {"loop", "done"})
    /\ [](pc = "done" =>
            /\ todo = {}
            /\ \A s \in Sessions : log[s].updates = (IF HasRecordings(s) THEN 1 ELSE 0))
    /\ [][Rank' < Rank]_vars

\* C6 witness: a finished run that saw a load failure, a name that does not
\* parse, a writer failure and a failed extractor, with both sessions updated
C6_Witness ==
    /\ pc = "done"
    /\ \E s \in Sessions : log[s].load_failed
    /\ \E s \in Sessions : log[s].parse_failed
    /\ \E s \in Sessions : log[s].write_failed
    /\ \E s \in Sessions : log[s].extractor_failed
    /\ \A s \in Sessions : log[s].updates = 1

\* C7: after the copy step of a session, a file that was at the destination
\* is as it was, every other file of the session folder is there as a copy,
\* nothing else of the archive changed, and copying again changes nothing
C7_CopyNeverOverwrites ==
    \A s \in Sessions : log[s].copied =>
        LET id == log[s].raw_id
            ses == SessionId(s)
        IN  /\ \A f \in session_files[s] :
                LET key == <<id, ses, f>>
                IN  /\ key \in DOMAIN raw_files
                    /\ raw_files[key] = IF key \in DOMAIN raw_before
                                        THEN raw_before[key] ELSE "src"
            /\ \A key \in DOMAIN raw_before : raw_files[key] = raw_before[key]
            /\ <<id, ses>> \in raw_dirs
            /\ CopyFiles(raw_files, id, ses, session_files[s]) = raw_files

\* C7 witness: the copy found one of the session's files at the destination,
\* left it, and copied another
C7_Witness ==
    \E s \in Sessions :
        /\ log[s].copied
        /\ \E f, g \in session_files[s] :
            /\ <<log[s].raw_id, SessionId(s), f>> \in DOMAIN raw_before
            /\ raw_files[<<log[s].raw_id, SessionId(s), f>>] = "sentinel"
            /\ <<log[s].raw_id, SessionId(s), g>> \notin DOMAIN raw_before
            /\ raw_files[<<log[s].raw_id, SessionId(s), g>>] = "src"

\* C9 as claimed: the id the relocate step and the update step use is the
\* canonical id of the subject directory, the id of the raw-archive destination
C9_Claimed ==
    \A s \in Sessions : log[s].updates > 0 =>
        /\ log[s].relocate_id = CanonicalId
        /\ log[s].participant_id = CanonicalId
        /\ log[s].dicom_id = CanonicalId
        /\ log[s].raw_id = CanonicalId

\* C10 as claimed: relocate-output acts on a session only after the conversion
\* step ran for it, and a run without the flag leaves the converted-output
\* tree as it found it
C10_Claimed ==
    /\ \A s \in Sessions : log[s].relocated => log[s].converted
    /\ ~do_bids => recon = recon_before


=============================================================================
